---- MODULE Spec2Model ----
(***************************************************************************)
(* Model of src/config.py: the environment files are loaded into the       *)
(* process environment, then the body of class EnvVariable resolves its    *)
(* constants one statement at a time with _get_env_variable,               *)
(* _get_bool_env_variable and pathlib.Path.                                *)
(*                                                                         *)
(* Python values are tagged records.  A Python str is Str(s) with s the    *)
(* sequence of its characters, so that str.lower() and pathlib.Path are    *)
(* computed character by character.                                        *)
(***************************************************************************)
EXTENDS Integers, Sequences, FiniteSets, TLC

VARIABLES
    processEnv,   \* the environment the process was started with
    dotenvFile,   \* KEY=VALUE content of .env
    apiKeysFile,  \* KEY=VALUE content of api_keys.env
    osEnviron,    \* os.environ
    pc,           \* position of the module's top-level code
    idx,          \* next statement of the body of class EnvVariable
    ns,           \* namespace of the class body under execution
    EnvVariable,  \* the module-level name EnvVariable
    raised,       \* the exception that left the module, if any
    budget,       \* environment edits still allowed by MaxDeviations
    call,         \* last direct call of one of the three functions
    ret           \* what that call returned or raised

vars == <<processEnv, dotenvFile, apiKeysFile, osEnviron, pc, idx, ns,
          EnvVariable, raised, budget, call, ret>>

-----------------------------------------------------------------------------
(* Bounds *)

\* Variables whose sources differ from a baseline deployment, plus later
\* edits of the environment.
MaxDeviations == 1

\* Length of the exhaustively enumerated inputs of cast_str_to_bool.
MaxStrLen == 2

-----------------------------------------------------------------------------
(* Python values *)

None == [t |-> "None"]
Str(s) == [t |-> "str", s |-> s]
Bool(b) == [t |-> "bool", b |-> b]
KeyError(n) == [t |-> "KeyError", var |-> n]
ValueError(n, v) == [t |-> "ValueError", var |-> n, value |-> v]
CastError(v) == [t |-> "ValueError", var |-> "", value |-> v]
NoError == [t |-> "NoError"]
Unset == [t |-> "unset"]
Unbound == [t |-> "unbound"]
NoCall == [t |-> "nocall"]

IsStr(v) == v.t = "str"
IsError(v) == v.t \in {"KeyError", "ValueError"}

\* Literals of the source, as character sequences.
S_true == <<"t", "r", "u", "e">>
S_t == <<"t">>
S_1 == <<"1">>
S_false == <<"f", "a", "l", "s", "e">>
S_f == <<"f">>
S_0 == <<"0">>
S_True == <<"T", "r", "u", "e">>
S_False == <<"F", "a", "l", "s", "e">>
S_None == <<"N", "o", "n", "e">>
S_localhost == <<"l", "o", "c", "a", "l", "h", "o", "s", "t">>
S_5431 == <<"5", "4", "3", "1">>
S_db == <<"d", "b">>
S_postgres == <<"p", "o", "s", "t", "g", "r", "e", "s">>
S_http_localhost == <<"h", "t", "t", "p", ":", "/", "/">> \o S_localhost
S_8088 == <<"8", "0", "8", "8">>
S_admin == <<"a", "d", "m", "i", "n">>
S_geoserver == <<"g", "e", "o", "s", "e", "r", "v", "e", "r">>

-----------------------------------------------------------------------------
(* str.lower(), str(default), pathlib.Path *)

UpperCase == <<"A", "B", "C", "D", "E", "F", "G", "H", "I", "J", "K", "L", "M",
               "N", "O", "P", "Q", "R", "S", "T", "U", "V", "W", "X", "Y", "Z">>
LowerCase == <<"a", "b", "c", "d", "e", "f", "g", "h", "i", "j", "k", "l", "m",
               "n", "o", "p", "q", "r", "s", "t", "u", "v", "w", "x", "y", "z">>

lower_char(c) ==
    IF \E i \in 1..26 : UpperCase[i] = c
    THEN LowerCase[CHOOSE i \in 1..26 : UpperCase[i] = c]
    ELSE c

lower(s) == [i \in 1..Len(s) |-> lower_char(s[i])]

\* str(x) of a bool or of None (the default handed on by line 89).
str(x) ==
    CASE x = None -> Str(S_None)
      [] x = Bool(TRUE) -> Str(S_True)
      [] x = Bool(FALSE) -> Str(S_False)
      [] OTHER -> x

\* The components of a POSIX path: the pieces between slashes, without the
\* empty ones and without ".".
RECURSIVE path_parts(_, _)
path_parts(s, cur) ==
    IF s = <<>>
    THEN IF cur = <<>> \/ cur = <<".">> THEN <<>> ELSE <<cur>>
    ELSE IF Head(s) = "/"
         THEN (IF cur = <<>> \/ cur = <<".">> THEN <<>> ELSE <<cur>>)
              \o path_parts(Tail(s), <<>>)
         ELSE path_parts(Tail(s), Append(cur, Head(s)))

RECURSIVE leading_slashes(_)
leading_slashes(s) ==
    IF s # <<>> /\ Head(s) = "/" THEN 1 + leading_slashes(Tail(s)) ELSE 0

\* Exactly two leading slashes are kept, any other number is one root.
path_root(s) ==
    CASE leading_slashes(s) = 0 -> <<>>
      [] leading_slashes(s) = 2 -> <<"/", "/">>
      [] OTHER -> <<"/">>

RECURSIVE join_parts(_)
join_parts(ps) ==
    IF ps = <<>> THEN <<>>
    ELSE IF Len(ps) = 1 THEN ps[1]
    ELSE ps[1] \o <<"/">> \o join_parts(Tail(ps))

\* pathlib.Path(string): a path value holding the normalised text.
Path(v) ==
    LET body == path_root(v.s) \o join_parts(path_parts(v.s, <<>>))
    IN  [t |-> "Path", s |-> IF body = <<>> THEN <<".">> ELSE body]

-----------------------------------------------------------------------------
(* The three functions *)

\* os.getenv(var_name)
getenv(environ, var_name) == environ[var_name]

IsNoneOrEmpty(v) == v = None \/ v = Str(<<>>)

\* Variant: only None counts as missing in the check of line 59.
_get_env_variable_none_only(environ, var_name, default, allow_empty) ==
    LET env_var0 == getenv(environ, var_name)
        env_var == IF default # None /\ IsNoneOrEmpty(env_var0)
                   THEN default
                   ELSE env_var0
    IN  IF ~allow_empty /\ env_var = None
        THEN KeyError(var_name)
        ELSE env_var

\* Variant: line 56 tests the truth of default, so an empty default is dropped.
_get_env_variable_truthy_default(environ, var_name, default, allow_empty) ==
    LET env_var0 == getenv(environ, var_name)
        env_var == IF ~IsNoneOrEmpty(default) /\ IsNoneOrEmpty(env_var0)
                   THEN default
                   ELSE env_var0
    IN  IF ~allow_empty /\ IsNoneOrEmpty(env_var)
        THEN KeyError(var_name)
        ELSE env_var

\* Variant: line 56 substitutes the default for an absent variable only.
_get_env_variable_absent_only(environ, var_name, default, allow_empty) ==
    LET env_var0 == getenv(environ, var_name)
        env_var == IF default # None /\ env_var0 = None
                   THEN default
                   ELSE env_var0
    IN  IF ~allow_empty /\ IsNoneOrEmpty(env_var)
        THEN KeyError(var_name)
        ELSE env_var

_get_env_variable(environ, var_name, default, allow_empty) ==
    LET env_var0 == getenv(environ, var_name)
        env_var == IF default # None /\ IsNoneOrEmpty(env_var0)
                   THEN default
                   ELSE env_var0
    IN  IF ~allow_empty /\ IsNoneOrEmpty(env_var)
        THEN KeyError(var_name)
        ELSE env_var

truth_values == {S_true, S_t, S_1}
false_values == {S_false, S_f, S_0}

\* Variant: the literal sets are compared without lower().
cast_str_to_bool_cased(string) ==
    IF string.s \in truth_values THEN Bool(TRUE)
    ELSE IF string.s \in false_values THEN Bool(FALSE)
    ELSE CastError(string.s)

cast_str_to_bool(string) ==
    IF lower(string.s) \in truth_values THEN Bool(TRUE)
    ELSE IF lower(string.s) \in false_values THEN Bool(FALSE)
    ELSE CastError(string.s)

_get_bool_env_variable(environ, var_name, default) ==
    LET env_variable == _get_env_variable(environ, var_name, str(default), FALSE)
    IN  IF IsError(env_variable)
        THEN env_variable
        ELSE LET b == cast_str_to_bool(env_variable)
             IN  IF IsError(b) THEN ValueError(var_name, env_variable.s) ELSE b

-----------------------------------------------------------------------------
(* The body of class EnvVariable *)

E(attr, var, kind, allow_empty) ==
    [attr |-> attr, var |-> var, kind |-> kind, allow_empty |-> allow_empty]

ClassBody == <<
    E("STATSNZ_API_KEY", "STATSNZ_API_KEY", "str", FALSE),
    E("LINZ_API_KEY", "LINZ_API_KEY", "str", FALSE),
    E("MFE_API_KEY", "MFE_API_KEY", "str", FALSE),
    E("NIWA_API_KEY", "NIWA_API_KEY", "str", FALSE),
    E("DEBUG_TRACEBACK", "DEBUG_TRACEBACK", "bool", FALSE),
    E("TEST_DATABASE_INTEGRATION", "TEST_DATABASE_INTEGRATION", "bool", FALSE),
    E("DATA_DIR", "DATA_DIR", "path", FALSE),
    E("DATA_DIR_MODEL_OUTPUT", "DATA_DIR_MODEL_OUTPUT", "path", FALSE),
    E("DATA_DIR_GEOSERVER", "DATA_DIR_GEOSERVER", "path", FALSE),
    E("FLOOD_MODEL_DIR", "FLOOD_MODEL_DIR", "path", FALSE),
    E("POSTGRES_HOST", "POSTGRES_HOST", "str", FALSE),
    E("POSTGRES_PORT", "POSTGRES_PORT", "str", FALSE),
    E("POSTGRES_DB", "POSTGRES_DB", "str", FALSE),
    E("POSTGRES_USER", "POSTGRES_USER", "str", FALSE),
    E("POSTGRES_PASSWORD", "POSTGRES_PASSWORD", "str", FALSE),
    E("MESSAGE_BROKER_HOST", "MESSAGE_BROKER_HOST", "str", FALSE),
    E("GEOSERVER_HOST", "GEOSERVER_HOST", "str", FALSE),
    E("GEOSERVER_PORT", "GEOSERVER_PORT", "str", FALSE),
    E("GEOSERVER_INTERNAL_HOST", "GEOSERVER_INTERNAL_HOST", "str", FALSE),
    E("GEOSERVER_INTERNAL_PORT", "GEOSERVER_INTERNAL_PORT", "str", FALSE),
    E("GEOSERVER_ADMIN_NAME", "GEOSERVER_ADMIN_NAME", "str", FALSE),
    E("GEOSERVER_ADMIN_PASSWORD", "GEOSERVER_ADMIN_PASSWORD", "str", FALSE),
    E("_LIDAR_DIR", "LIDAR_DIR", "str", FALSE),
    E("_DEM_DIR", "DEM_DIR", "str", FALSE),
    E("_LAND_FILE", "LAND_FILE", "str", TRUE),
    E("_INSTRUCTIONS_FILE", "INSTRUCTIONS_FILE", "str", FALSE) >>

NumStatements == Len(ClassBody)
Names == {ClassBody[i].var : i \in 1..NumStatements}
Attrs == {ClassBody[i].attr : i \in 1..NumStatements}
BoolNames == {ClassBody[i].var : i \in {j \in 1..NumStatements : ClassBody[j].kind = "bool"}}
PathNames == {ClassBody[i].var : i \in {j \in 1..NumStatements : ClassBody[j].kind = "path"}}

\* The default= argument of the statement that assigns attr, evaluated in
\* the namespace built so far.
\* Variant: every default is a literal, the internal host and port too.
default_value_literal(attr, namespace) ==
    CASE attr = "DEBUG_TRACEBACK" -> Bool(FALSE)
      [] attr = "TEST_DATABASE_INTEGRATION" -> Bool(TRUE)
      [] attr = "POSTGRES_HOST" -> Str(S_localhost)
      [] attr = "POSTGRES_PORT" -> Str(S_5431)
      [] attr = "POSTGRES_DB" -> Str(S_db)
      [] attr = "POSTGRES_USER" -> Str(S_postgres)
      [] attr = "MESSAGE_BROKER_HOST" -> Str(S_localhost)
      [] attr = "GEOSERVER_HOST" -> Str(S_http_localhost)
      [] attr = "GEOSERVER_PORT" -> Str(S_8088)
      [] attr = "GEOSERVER_INTERNAL_HOST" -> Str(S_http_localhost)
      [] attr = "GEOSERVER_INTERNAL_PORT" -> Str(S_8088)
      [] attr = "GEOSERVER_ADMIN_NAME" -> Str(S_admin)
      [] attr = "GEOSERVER_ADMIN_PASSWORD" -> Str(S_geoserver)
      [] OTHER -> None

default_value(attr, namespace) ==
    CASE attr = "DEBUG_TRACEBACK" -> Bool(FALSE)
      [] attr = "TEST_DATABASE_INTEGRATION" -> Bool(TRUE)
      [] attr = "POSTGRES_HOST" -> Str(S_localhost)
      [] attr = "POSTGRES_PORT" -> Str(S_5431)
      [] attr = "POSTGRES_DB" -> Str(S_db)
      [] attr = "POSTGRES_USER" -> Str(S_postgres)
      [] attr = "MESSAGE_BROKER_HOST" -> Str(S_localhost)
      [] attr = "GEOSERVER_HOST" -> Str(S_http_localhost)
      [] attr = "GEOSERVER_PORT" -> Str(S_8088)
      [] attr = "GEOSERVER_INTERNAL_HOST" -> namespace["GEOSERVER_HOST"]
      [] attr = "GEOSERVER_INTERNAL_PORT" -> namespace["GEOSERVER_PORT"]
      [] attr = "GEOSERVER_ADMIN_NAME" -> Str(S_admin)
      [] attr = "GEOSERVER_ADMIN_PASSWORD" -> Str(S_geoserver)
      [] OTHER -> None

\* The right-hand side of statement i: a value, or the exception it raises.
statement_value(i, environ, namespace) ==
    LET e == ClassBody[i]
        d == default_value(e.attr, namespace)
    IN  CASE e.kind = "bool" -> _get_bool_env_variable(environ, e.var, d)
          [] e.kind = "path" ->
                LET r == _get_env_variable(environ, e.var, d, e.allow_empty)
                IN  IF IsError(r) THEN r ELSE Path(r)
          [] OTHER -> _get_env_variable(environ, e.var, d, e.allow_empty)

-----------------------------------------------------------------------------
(* load_dotenv *)

\* dotenv's load: every key of the file is put into the environment, a key
\* that is already there only when override is set.
dotenv_set(environ, file, override) ==
    [k \in Names |->
        IF file[k] # None /\ (override \/ environ[k] = None)
        THEN file[k]
        ELSE environ[k]]

\* Variant: the call passes override=True.
load_dotenv_override(environ, file) == dotenv_set(environ, file, TRUE)

\* load_dotenv(path) as lines 25 and 26 call it: override is left at False.
load_dotenv(environ, file) == dotenv_set(environ, file, FALSE)

-----------------------------------------------------------------------------
(* Environments the process may be started in *)

AttrOf(n) == ClassBody[CHOOSE i \in 1..NumStatements : ClassBody[i].var = n].attr
AllNone == [n \in Names |-> None]
NothingResolved == [a \in Attrs |-> Unset]

\* A deployment that sets exactly the variables that have no default.
BaselineMinimal ==
    [n \in Names |->
        IF default_value(AttrOf(n), NothingResolved) = None
        THEN Str(<<"p">>)
        ELSE None]

\* A deployment that sets every variable.
BaselineFull ==
    [n \in Names |-> IF n \in BoolNames THEN Str(S_1) ELSE Str(<<"p">>)]

Baselines == {BaselineMinimal, BaselineFull}

ProcDomain(n) ==
    IF n \in BoolNames
    THEN {None, Str(<<>>), Str(S_1), Str(<<"F">>), Str(<<"y">>)}
    ELSE IF n \in PathNames
    THEN {None, Str(<<>>), Str(<<"p">>), Str(<<"p", "/">>)}
    ELSE {None, Str(<<>>), Str(<<"p">>)}

DotenvValue(n) == IF n \in BoolNames THEN Str(<<"T">>) ELSE Str(<<"q">>)
ApiKeysValue(n) == IF n \in BoolNames THEN Str(S_0) ELSE Str(<<"r">>)

\* One deviation from a baseline: a variable of the process environment
\* given another value (or removed), or a line KEY=VALUE in one of the files.
Edits ==
    UNION {{[f |-> "proc", var |-> n, val |-> v] : v \in ProcDomain(n)}
           \cup {[f |-> "dotenv", var |-> n, val |-> DotenvValue(n)],
                 [f |-> "api", var |-> n, val |-> ApiKeysValue(n)]} :
           n \in Names}

\* The sources after the edits es, the later edit of a place winning.
Edited(es, f, n, old) ==
    LET hits == {i \in DOMAIN es : es[i].f = f /\ es[i].var = n}
    IN  IF hits = {} THEN old
        ELSE es[CHOOSE i \in hits : \A j \in hits : j <= i].val

-----------------------------------------------------------------------------
(* Startup: the module's top-level code *)

Init ==
    \E base \in Baselines : \E es \in [1..MaxDeviations -> Edits] :
        /\ processEnv = [n \in Names |-> Edited(es, "proc", n, base[n])]
        /\ dotenvFile = [n \in Names |-> Edited(es, "dotenv", n, None)]
        /\ apiKeysFile = [n \in Names |-> Edited(es, "api", n, None)]
        /\ osEnviron = processEnv
        /\ budget = MaxDeviations
                    - Cardinality({n \in Names : processEnv[n] # base[n]})
                    - Cardinality({n \in Names : dotenvFile[n] # None})
                    - Cardinality({n \in Names : apiKeysFile[n] # None})
        /\ pc = "load_dotenv"
        /\ idx = 1
        /\ ns = NothingResolved
        /\ EnvVariable = Unbound
        /\ raised = NoError
        /\ call = NoCall
        /\ ret = NoCall

\* Line 25: load_dotenv()
LoadDotenv ==
    /\ pc = "load_dotenv"
    /\ osEnviron' = load_dotenv(osEnviron, dotenvFile)
    /\ pc' = "load_api_keys"
    /\ UNCHANGED <<processEnv, dotenvFile, apiKeysFile, idx, ns, EnvVariable,
                   raised, budget, call, ret>>

\* Line 26: load_dotenv("api_keys.env")
LoadApiKeys ==
    /\ pc = "load_api_keys"
    /\ osEnviron' = load_dotenv(osEnviron, apiKeysFile)
    /\ pc' = "class_body"
    /\ UNCHANGED <<processEnv, dotenvFile, apiKeysFile, idx, ns, EnvVariable,
                   raised, budget, call, ret>>

\* One assignment of the class body whose right-hand side returns.
ClassStatement ==
    /\ pc = "class_body"
    /\ idx <= NumStatements
    /\ ~IsError(statement_value(idx, osEnviron, ns))
    /\ ns' = [ns EXCEPT ![ClassBody[idx].attr] = statement_value(idx, osEnviron, ns)]
    /\ idx' = idx + 1
    /\ UNCHANGED <<processEnv, dotenvFile, apiKeysFile, osEnviron, pc, EnvVariable,
                   raised, budget, call, ret>>

\* A variant that records the exception and goes on with the next statement.
ClassStatementRaises_continue ==
    /\ pc = "class_body"
    /\ idx <= NumStatements
    /\ IsError(statement_value(idx, osEnviron, ns))
    /\ raised' = statement_value(idx, osEnviron, ns)
    /\ ns' = [ns EXCEPT ![ClassBody[idx].attr] = None]
    /\ idx' = idx + 1
    /\ UNCHANGED <<processEnv, dotenvFile, apiKeysFile, osEnviron, pc, EnvVariable,
                   budget, call, ret>>

\* One assignment of the class body whose right-hand side raises: nothing
\* catches it, the class statement and the import are abandoned.
ClassStatementRaises ==
    /\ pc = "class_body"
    /\ idx <= NumStatements
    /\ IsError(statement_value(idx, osEnviron, ns))
    /\ raised' = statement_value(idx, osEnviron, ns)
    /\ pc' = "failed"
    /\ UNCHANGED <<processEnv, dotenvFile, apiKeysFile, osEnviron, idx, ns,
                   EnvVariable, budget, call, ret>>

\* End of the class statement: the class is created from the namespace and
\* bound to the name EnvVariable.
BindClass ==
    /\ pc = "class_body"
    /\ idx = NumStatements + 1
    /\ EnvVariable' = ns
    /\ pc' = "imported"
    /\ UNCHANGED <<processEnv, dotenvFile, apiKeysFile, osEnviron, idx, ns,
                   raised, budget, call, ret>>

\* The application, after the import, sets a variable of its environment.
Putenv ==
    /\ pc = "imported"
    /\ budget > 0
    /\ \E n \in Names :
          osEnviron' = [osEnviron EXCEPT ![n] = Str(<<"z">>)]
    /\ budget' = budget - 1
    /\ UNCHANGED <<processEnv, dotenvFile, apiKeysFile, pc, idx, ns, EnvVariable,
                   raised, call, ret>>

\* The application, after the import, removes a variable of its environment.
Unsetenv ==
    /\ pc = "imported"
    /\ budget > 0
    /\ \E n \in Names :
          /\ osEnviron[n] # None
          /\ osEnviron' = [osEnviron EXCEPT ![n] = None]
    /\ budget' = budget - 1
    /\ UNCHANGED <<processEnv, dotenvFile, apiKeysFile, pc, idx, ns, EnvVariable,
                   raised, call, ret>>

Next ==
    \/ LoadDotenv
    \/ LoadApiKeys
    \/ ClassStatement
    \/ ClassStatementRaises
    \/ BindClass
    \/ Putenv
    \/ Unsetenv

Spec == Init /\ [][Next]_vars

\* Variant: the attribute is resolved anew at every read.
Constant_live(attr) ==
    IF EnvVariable = Unbound THEN Unset
    ELSE statement_value(CHOOSE i \in 1..NumStatements : ClassBody[i].attr = attr,
                         osEnviron, EnvVariable)

\* EnvVariable.<attr> as the application reads it: the class attribute.
Constant(attr) == IF EnvVariable = Unbound THEN Unset ELSE EnvVariable[attr]

-----------------------------------------------------------------------------
(* Direct calls of the three functions *)

upper_char(c) ==
    IF \E i \in 1..26 : LowerCase[i] = c
    THEN UpperCase[CHOOSE i \in 1..26 : LowerCase[i] = c]
    ELSE c

\* Every spelling of the word w in upper and lower case.
Spellings(w) ==
    {[i \in 1..Len(w) |-> IF i \in U THEN upper_char(w[i]) ELSE w[i]] :
        U \in SUBSET (1..Len(w))}

CastAlphabet == {"t", "T", "f", "F", "0", "1", "y", " "}
ShortStrings == UNION {[1..n -> CastAlphabet] : n \in 0..MaxStrLen}
CastWords == {S_true, S_false, <<"y", "e", "s">>, <<"2">>, <<"n", "o">>,
              <<"t", "r", "u">>, <<"t", "r", "u", "e", " ">>, <<"o", "n">>,
              S_None, <<"1", "0">>}
CastInputs == ShortStrings \cup UNION {Spellings(w) : w \in CastWords}

CallEnvValues == {Str(<<>>), Str(<<"p">>), Str(S_1), Str(<<"F">>), Str(<<"y">>),
                  Str(S_True), Str(S_None)}
StrDefaults == {None, Str(<<>>), Str(<<"d">>)}
BoolDefaults == {None, Bool(TRUE), Bool(FALSE)}

InitCall ==
    /\ \E n \in Names : \E v \in CallEnvValues \cup {None} :
          processEnv = [m \in Names |-> IF m = n THEN v ELSE None]
    /\ osEnviron = processEnv
    /\ dotenvFile = AllNone
    /\ apiKeysFile = AllNone
    /\ budget = 0
    /\ pc = "call"
    /\ idx = 1
    /\ ns = NothingResolved
    /\ EnvVariable = Unbound
    /\ raised = NoError
    /\ call = NoCall
    /\ ret = NoCall

Call_cast_str_to_bool ==
    /\ pc = "call"
    /\ \E s \in CastInputs :
          /\ call' = [fn |-> "cast_str_to_bool", string |-> Str(s)]
          /\ ret' = cast_str_to_bool(Str(s))
    /\ pc' = "returned"
    /\ UNCHANGED <<processEnv, dotenvFile, apiKeysFile, osEnviron, idx, ns,
                   EnvVariable, raised, budget>>

Call_get_env_variable ==
    /\ pc = "call"
    /\ \E n \in Names : \E d \in StrDefaults : \E a \in BOOLEAN :
          /\ call' = [fn |-> "_get_env_variable", var_name |-> n,
                      default |-> d, allow_empty |-> a]
          /\ ret' = _get_env_variable(osEnviron, n, d, a)
    /\ pc' = "returned"
    /\ UNCHANGED <<processEnv, dotenvFile, apiKeysFile, osEnviron, idx, ns,
                   EnvVariable, raised, budget>>

Call_get_bool_env_variable ==
    /\ pc = "call"
    /\ \E n \in Names : \E d \in BoolDefaults :
          /\ call' = [fn |-> "_get_bool_env_variable", var_name |-> n, default |-> d]
          /\ ret' = _get_bool_env_variable(osEnviron, n, d)
    /\ pc' = "returned"
    /\ UNCHANGED <<processEnv, dotenvFile, apiKeysFile, osEnviron, idx, ns,
                   EnvVariable, raised, budget>>

NextCall ==
    \/ Call_cast_str_to_bool
    \/ Call_get_env_variable
    \/ Call_get_bool_env_variable

SpecCall == InitCall /\ [][NextCall]_vars

-----------------------------------------------------------------------------
(* Properties *)

Called(fn) == call # NoCall /\ call.fn = fn
Returned == ~IsError(ret)
TrueSpellings == UNION {Spellings(w) : w \in {S_true, S_t, S_1}}
FalseSpellings == UNION {Spellings(w) : w \in {S_false, S_f, S_0}}

\* C1: cast_str_to_bool(s) is true exactly for the spellings, in any case, of
\* "true", "t", "1", false exactly for those of "false", "f", "0", and a
\* ValueError for every other string.
C1_CastLiterals ==
    Called("cast_str_to_bool") =>
        /\ ret = Bool(TRUE) <=> call.string.s \in TrueSpellings
        /\ ret = Bool(FALSE) <=> call.string.s \in FalseSpellings
        /\ call.string.s \notin TrueSpellings \cup FalseSpellings => ret.t = "ValueError"
        /\ ret.t \in {"bool", "ValueError"}

C1_Witness ==
    /\ Called("cast_str_to_bool")
    /\ call.string.s = S_True
    /\ ret = Bool(TRUE)

\* C2: with no default and allow_empty false, an absent or empty variable
\* makes _get_env_variable raise the KeyError that names the variable.
C2_RequiredMissingRaises ==
    ( /\ Called("_get_env_variable")
      /\ call.default = None
      /\ ~call.allow_empty
      /\ IsNoneOrEmpty(osEnviron[call.var_name]) )
    => ret = KeyError(call.var_name)

C2_Witness ==
    /\ Called("_get_env_variable")
    /\ call.default = None
    /\ ~call.allow_empty
    /\ osEnviron[call.var_name] = Str(<<>>)
    /\ ret = KeyError(call.var_name)

\* C3: with a default d and the variable absent or empty, a non-empty d is
\* returned as it is, and an empty d with allow_empty true gives the empty
\* string and no error.
C3_DefaultReturned ==
    ( /\ Called("_get_env_variable")
      /\ call.default # None
      /\ IsNoneOrEmpty(osEnviron[call.var_name]) )
    => /\ call.default # Str(<<>>) => ret = call.default
       /\ (call.default = Str(<<>>) /\ call.allow_empty) => ret = Str(<<>>)

C3_Witness ==
    /\ Called("_get_env_variable")
    /\ call.default = Str(<<>>)
    /\ call.allow_empty
    /\ osEnviron[call.var_name] = None
    /\ ret = Str(<<>>)

C8_ReturnsStr ==
    (Called("_get_env_variable") /\ Returned) =>
        /\ IsStr(ret)
        /\ ret = Str(<<>>) => call.allow_empty

\* C10: with a boolean default, _get_bool_env_variable gives for a variable
\* set to the empty string what it gives for an absent one: the default, and
\* no error.
C10_EmptyBoolIsDefault ==
    ( /\ Called("_get_bool_env_variable")
      /\ call.default # None
      /\ osEnviron[call.var_name] = Str(<<>>) )
    => /\ ret = call.default
       /\ ret = _get_bool_env_variable([osEnviron EXCEPT ![call.var_name] = None],
                                       call.var_name, call.default)

C10_Witness ==
    /\ Called("_get_bool_env_variable")
    /\ call.var_name = "DEBUG_TRACEBACK"
    /\ call.default = Bool(FALSE)
    /\ osEnviron["DEBUG_TRACEBACK"] = Str(<<>>)
    /\ ret = Bool(FALSE)

\* os.environ as the class body finds it, after both files are loaded.
EnvAfterLoad == load_dotenv(load_dotenv(processEnv, dotenvFile), apiKeysFile)

Resolved(i) == ns[ClassBody[i].attr] # Unset

\* C4: a key that the process environment had before the load keeps that
\* value through both loads, and it is that value the class body resolves.
C4_ProcessValueWins ==
    pc \in {"class_body", "failed"} =>
        \A i \in 1..NumStatements :
            LET k == ClassBody[i].var
            IN  processEnv[k] # None =>
                    /\ getenv(osEnviron, k) = processEnv[k]
                    /\ (Resolved(i) /\ ClassBody[i].kind = "str" /\ processEnv[k] # Str(<<>>))
                           => ns[ClassBody[i].attr] = processEnv[k]

C4_Witness ==
    /\ pc = "class_body"
    /\ \E i \in 1..NumStatements :
          LET k == ClassBody[i].var
          IN  /\ processEnv[k] = Str(<<"p">>)
              /\ dotenvFile[k] = Str(<<"q">>)
              /\ Resolved(i)
              /\ ns[ClassBody[i].attr] = Str(<<"p">>)

\* C5: after a successful startup, an internal host (port) with no non-empty
\* value in the environment equals the resolved external host (port).
C5_InternalFallsBack ==
    EnvVariable # Unbound =>
        /\ IsNoneOrEmpty(EnvAfterLoad["GEOSERVER_INTERNAL_HOST"])
              => EnvVariable["GEOSERVER_INTERNAL_HOST"] = EnvVariable["GEOSERVER_HOST"]
        /\ IsNoneOrEmpty(EnvAfterLoad["GEOSERVER_INTERNAL_PORT"])
              => EnvVariable["GEOSERVER_INTERNAL_PORT"] = EnvVariable["GEOSERVER_PORT"]

C5_Witness ==
    /\ EnvVariable # Unbound
    /\ EnvAfterLoad["GEOSERVER_INTERNAL_HOST"] = Str(<<>>)
    /\ EnvAfterLoad["GEOSERVER_HOST"] = Str(<<"p">>)
    /\ EnvVariable["GEOSERVER_INTERNAL_HOST"] = Str(<<"p">>)

\* C6: either every constant is resolved and EnvVariable is bound, or the
\* first failing statement ended the startup: no later statement ran and
\* EnvVariable is not bound.
C6_AllOrNothing ==
    /\ EnvVariable # Unbound <=> pc = "imported"
    /\ EnvVariable # Unbound =>
          /\ raised = NoError
          /\ \A a \in Attrs : EnvVariable[a] # Unset
    /\ raised # NoError =>
          /\ pc = "failed"
          /\ EnvVariable = Unbound
          /\ raised = statement_value(idx, osEnviron, ns)
          /\ \A i \in 1..NumStatements : Resolved(i) <=> i < idx

C6_Witness ==
    /\ pc = "failed"
    /\ raised.t = "ValueError"
    /\ Resolved(1)
    /\ ~Resolved(NumStatements)
    /\ EnvVariable = Unbound

\* C9: once EnvVariable is bound, no change of the environment changes any
\* of its constants.
C9_NeverRefreshed ==
    [][EnvVariable # Unbound => \A a \in Attrs : Constant(a)' = Constant(a)]_vars

C9_Witness ==
    /\ EnvVariable # Unbound
    /\ osEnviron["POSTGRES_PORT"] = Str(<<"z">>)
    /\ Constant("POSTGRES_PORT") = Str(S_5431)

====
